---- MODULE Spec2Model ----
(***************************************************************************)
(* Route enrichment of ScoutAlina (scoutalina/server/services/enrichment.py *)
(* over the tables of scoutalina/server/models.py).                         *)
(*                                                                         *)
(* Each worker of Workers is one caller of enrich_route with its own        *)
(* SQLAlchemy session, i.e. its own database transaction (PostgreSQL,       *)
(* READ COMMITTED): a statement sees the committed rows and the rows its    *)
(* own transaction wrote.  One action is one database round trip of the     *)
(* code, so that two runs interleave statement by statement.                *)
(*                                                                         *)
(* Coordinates are integers in micro-degrees, timestamps integers in hours. *)
(* The SQL text is modelled by what the statement computes in PostGIS; the  *)
(* binding of its parameters by the driver is not modelled.                 *)
(*                                                                         *)
(* Beside Spec (concurrent calls of enrich_route) the module holds CallSpec *)
(* (one call with its HTTP exchange), RaritySpec (rarity labels),           *)
(* UploadSpec (upload_route), ClientSpec (the mobile client of              *)
(* src/android/main.py) and ApiSpec (require_api_key and list_properties).  *)
(***************************************************************************)
EXTENDS Integers, Sequences, FiniteSets, Bags, TLC

\* ------------------------------------------------------------------ bounds
\* Longest provider response (records per bounding-box query).
MaxResp == 2
\* The hour at which the clock of the model stops.
MaxNow == 24

\* --------------------------------------------------------------- constants
\* Config.ROUTE_BUFFER_METERS, read by enrich_route.
ROUTE_BUFFER_METERS == 100
\* The staleness threshold written into _upsert_and_associate: timedelta(hours=24).
STALE_HOURS == 24
\* Micro-degrees in one unit of the SRID 4326 plane (one degree).
MicroDeg == 1000000

\* Python's None and SQL's NULL: the empty tuple; a value v that is present is
\* the one-element tuple <<v>>.
None == << >>
Some(v) == << v >>
Val(o) == o[1]

\* The calls of enrich_route: each has its own request context and session.
\* w1 names the call that starts first.
Workers == {"w1", "w2"}

\* ------------------------------------------------------------ routes table
\* A LINESTRING along one parallel: its latitude and the span of longitudes.
Line == [lat |-> -45 * MicroDeg, lon0 |-> 10 * MicroDeg, lon1 |-> 10 * MicroDeg + 5988]

\* routes: id -> row.  Route 1 has a geometry, route 2 was stored without one;
\* no route has the identifier 3.
StoredRoutes == (1 :> [geom |-> Some(Line)]) @@ (2 :> [geom |-> None])
RouteIdArgs == {1, 2, 3}

\* ------------------------------------------------------- provider records
\* Latitudes of the listings a provider returns, by their distance from the
\* route's parallel in the SRID 4326 plane: 449 micro-degrees (about 50 m on
\* the ground), exactly 100 units, and one micro-degree more than 100 units.
LatNear == Line.lat + 449
LatEdge == Line.lat + ROUTE_BUFFER_METERS * MicroDeg
LatBeyond == Line.lat + ROUTE_BUFFER_METERS * MicroDeg + 1

\* Raw records of the ATTOM sale snapshot: identifier.attomId,
\* location.latitude/longitude, sale.amount.saleamt.
Listings ==
    { [attomId |-> "a", latitude |-> Some(LatNear),   longitude |-> Some(Line.lon0), saleamt |-> Some(400000)],
      [attomId |-> "a", latitude |-> Some(LatEdge),   longitude |-> Some(Line.lon0), saleamt |-> Some(1000000)],
      [attomId |-> "a", latitude |-> Some(LatBeyond), longitude |-> Some(Line.lon0), saleamt |-> Some(400000)],
      [attomId |-> "b", latitude |-> Some(LatNear),   longitude |-> Some(Line.lon1), saleamt |-> Some(2000000)] }

\* The responses a provider can give: every list of at most MaxResp records.
Responses == UNION { [1..n -> Listings] : n \in 0..MaxResp }

VARIABLES
    now,               \* datetime.utcnow(), hours
    routes,            \* table routes: id -> row
    properties,        \* table properties, committed rows: id -> row
    properties_id_seq, \* the sequence behind properties.id
    route_properties,  \* table route_properties, committed rows (a bag of rows)
    pc,                \* per worker: where its call of enrich_route stands
    route_id,          \* per worker: the argument of enrich_route
    attom_props,       \* per worker: what _query_attom_bbox returned
    estated,           \* per worker: what the Estated API holds for the bounding box
    idx,               \* per worker: the position of `rec` in attom_props
    count,             \* per worker: the local `count`
    props,             \* per worker: the local `props` (parse_attom_property(rec))
    prop,              \* per worker: the id of the local `prop`
    session,           \* per worker: db.session, the rows its transaction wrote
    result,            \* per worker: the value enrich_route returned
    exc                \* per worker: the exception enrich_route raised ("" for none)

\* State that only the specification of one call in detail (CallSpec) moves.
VARIABLES
    config,            \* current_app.config: the settings of class Config
    api_key,           \* os.environ.get("ATTOM_API_KEY")
    http_response,     \* what requests.get(url, ...) met, None before the request
    http_params,       \* the bounding box in the params of the request, None before it
    requests_get,      \* how many times requests.get was called
    estated_calls      \* how many times enrich_with_estated was called

call == << config, api_key, http_response, http_params, requests_get, estated_calls >>

\* State that only the specification of the rarity labels (RaritySpec) moves.
VARIABLES
    catalog,           \* properties.price of the rows joined to the user's routes
    labels,            \* get_rarity() of each of them, None before it is asked
    rarity_counts      \* stats: rarity_breakdown, None before it is asked

rarity == << catalog, labels, rarity_counts >>

\* State that only the specification of the route upload (UploadSpec) moves.
VARIABLES
    payload,           \* request.get_json() of POST /upload_route, None for no request
    route_points,      \* table route_points: the set of its rows
    routes_id_seq,     \* the sequence behind routes.id
    upload_response,   \* what upload_route returned, None before it returns
    geojson            \* the coordinates Route.to_geojson() gave, None before it is asked

upload == << payload, route_points, routes_id_seq, upload_response, geojson >>

\* State that only the specification of the mobile client (ClientSpec) moves.
VARIABLES
    is_collecting,     \* ScoutAlinaApp.is_collecting
    collected_points,  \* self.collected_points: the sample buffer
    tick_ev,           \* self._tick_ev is not None: the simulated tick is scheduled
    gps_active,        \* self._gps_active
    gps_running,       \* the location provider delivers fixes to _on_gps_location
    sample_seq,        \* how many samples the callbacks recorded
    utcnow,            \* the device clock, in seconds
    files,             \* the routes directory: file name -> the points of its payload
    clock_events,      \* the callbacks given to Clock.schedule_once, in order
    linked,            \* config.json holds server_base_url and api_key
    accepted,          \* file name -> the 2xx answers the server gave to its uploads
    launches           \* how many times the application was started again

client == << is_collecting, collected_points, tick_ev, gps_active, gps_running, sample_seq,
             utcnow, files, clock_events, linked, accepted, launches >>

\* The state outside the enrichment of stored routes by concurrent calls.
\* State that only the specification of the authenticated read API (ApiSpec)
\* moves.
VARIABLES
    users,             \* table users: id -> row (api_key, is_active)
    route_owner,       \* routes.user_id: route id -> user id
    request,           \* the request: X-API-Key header, api_key of the JSON body, route_id argument
    api_pc,            \* "idle", "handler" (the wrapper called the handler), "done"
    g_current_user,    \* g.current_user: the id of the user, None when not set
    handler_calls,     \* how many times the wrapped handler was invoked
    api_response       \* the response: its status and the properties it lists

api == << users, route_owner, request, api_pc, g_current_user, handler_calls, api_response >>

side == << call, rarity, upload, client, api >>

vars == << now, routes, properties, properties_id_seq, route_properties,
           pc, route_id, attom_props, estated, idx, count, props, prop, session, result, exc,
           side >>

tables == << routes, properties, properties_id_seq, route_properties >>
locals == << route_id, attom_props, estated, idx, count, props, prop, session, result, exc >>

\* properties: id -> row.  An enrichment of route 1 at hour 0 met listing "a"
\* beyond the buffer: the property is stored and not associated.  No listing
\* "b" has been met.
StoredProperties ==
    1 :> [ external_id |-> Some("a"), latitude |-> Some(LatBeyond),
           longitude |-> Some(Line.lon0), price |-> Some(400000),
           source |-> "ATTOM", last_updated |-> 0 ]

\* A session that holds nothing: no transaction is open.
EmptySession ==
    [ props    |-> << >>,     \* properties rows written: id -> row
      inserted |-> {},        \* the ids among them that are INSERTs
      assocs   |-> << >>,     \* route_properties rows added: <<route, property>> -> row
      updates  |-> << >> ]    \* distance_meters set on committed rows: key -> value

\* Config as config.py declares it.
PROPERTY_CACHE_HOURS == 24
DefaultConfig ==
    [ ROUTE_BUFFER_METERS |-> ROUTE_BUFFER_METERS, PROPERTY_CACHE_HOURS |-> PROPERTY_CACHE_HOURS ]

\* No request to the ATTOM API is followed.
CallIdle ==
    /\ config = DefaultConfig
    /\ api_key = None
    /\ http_response = None
    /\ http_params = None
    /\ requests_get = 0
    /\ estated_calls = 0

\* The tables and the calls before any call of enrich_route.
EnrichInit ==
    /\ now = 0
    /\ routes = StoredRoutes
    /\ properties = StoredProperties
    /\ properties_id_seq = 1
    /\ route_properties = EmptyBag
    /\ pc = [w \in Workers |-> "idle"]
    /\ route_id = [w \in Workers |-> 0]
    /\ attom_props = [w \in Workers |-> None]
    /\ estated = [w \in Workers |-> None]
    /\ idx = [w \in Workers |-> 0]
    /\ count = [w \in Workers |-> 0]
    /\ props = [w \in Workers |-> None]
    /\ prop = [w \in Workers |-> 0]
    /\ session = [w \in Workers |-> EmptySession]
    /\ result = [w \in Workers |-> None]
    /\ exc = [w \in Workers |-> ""]

\* No property is joined to a route of the user, no label is asked.
RarityIdle ==
    /\ catalog = << >>
    /\ labels = None
    /\ rarity_counts = None

\* route_points: the two samples route 1 was built from, the ends of Line.
StoredRoutePoints ==
    { [ id |-> 1, route_id |-> 1, timestamp |-> 1,
        latitude |-> Some(Line.lat), longitude |-> Some(Line.lon0) ],
      [ id |-> 2, route_id |-> 1, timestamp |-> 2,
        latitude |-> Some(Line.lat), longitude |-> Some(Line.lon1) ] }

\* No upload is under way.
UploadIdle ==
    /\ payload = None
    /\ route_points = StoredRoutePoints
    /\ routes_id_seq = 2
    /\ upload_response = None
    /\ geojson = None

\* The client runs with an empty routes directory and is not followed.
ClientIdle ==
    /\ is_collecting = FALSE
    /\ collected_points = << >>
    /\ tick_ev = FALSE
    /\ gps_active = FALSE
    /\ gps_running = FALSE
    /\ sample_seq = 0
    /\ utcnow = 0
    /\ files = << >>
    /\ clock_events = << >>
    /\ linked = FALSE
    /\ accepted = << >>
    /\ launches = 0

\* The key of user u1 as generate_api_key stores it, and the users table: no
\* request is followed.
StoredUsers ==
    ("u1" :> [api_key |-> Some([text |-> "k1", padded |-> FALSE]), is_active |-> TRUE])
    @@ ("u2" :> [api_key |-> Some([text |-> "k2", padded |-> FALSE]), is_active |-> TRUE])
StoredOwners == (1 :> "u1") @@ (2 :> "u2")
ApiIdle ==
    /\ users = StoredUsers
    /\ route_owner = StoredOwners
    /\ request = None
    /\ api_pc = "idle"
    /\ g_current_user = None
    /\ handler_calls = 0
    /\ api_response = None

Init == EnrichInit /\ CallIdle /\ RarityIdle /\ UploadIdle /\ ClientIdle /\ ApiIdle

\* ------------------------------------------------------------- constraints
\* properties.external_id is declared unique=True.
NoUniqueExternalId == FALSE
UniqueExternalId == TRUE
\* route_properties has the composite primary key (route_id, property_id).
NoRoutePropertyPrimaryKey == FALSE
RoutePropertyPrimaryKey == TRUE

\* ----------------------------------------------------------------- helpers
Put(f, k, v) == [x \in DOMAIN f \cup {k} |-> IF x = k THEN v ELSE f[x]]
Key(row) == << row.route_id, row.property_id >>

RECURSIVE Copies(_, _)
\* The rows of R counted with their copies in the bag B.
Copies(B, R) ==
    IF R = {} THEN 0
    ELSE LET r == CHOOSE x \in R : TRUE
         IN  CopiesIn(r, B) + Copies(B, R \ {r})

\* Committed route_properties rows with the key k.
RowsWithKey(k) == { r \in BagToSet(route_properties) : Key(r) = k }

\* As Visible, were the rows other transactions wrote seen before their commit.
VisibleUncommitted(w) ==
    LET v == CHOOSE u \in Workers : u # w
    IN  session[w].props @@ session[v].props @@ properties

\* What the statements of worker w's transaction see of table properties:
\* the committed rows, overlaid with the rows the transaction wrote.
Visible(w) == session[w].props @@ properties

\* db.session.query(Property).filter_by(external_id=ext_id).first():
\* the id of the row found, 0 for no row.
QueryProperty(w, ext_id) ==
    LET ids == { i \in DOMAIN Visible(w) : Visible(w)[i].external_id = ext_id }
    IN  IF ids = {} THEN 0 ELSE CHOOSE i \in ids : \A j \in ids : i <= j

\* The check of the route without the check of its geometry.
RouteExists(rid) == rid \in DOMAIN routes

\* route = db.session.get(Route, route_id), and `not route or not route.geom`
\* negated.
RouteUsable(rid) == rid \in DOMAIN routes /\ routes[rid].geom # None

\* ---------------------------------------------------------------- parsing
\* A field value float() does not accept (text such as "N/A"): a pair, so that
\* it is neither None nor a number <<v>>.
NonNumeric == << 0, 0 >>

\* parse_attom_property(data) raises: float() meets a non-numeric coordinate.
ParseRaises(data) == data.latitude = NonNumeric \/ data.longitude = NonNumeric

\* float(x or 0) or None
FloatOrNone(x) == IF x = None \/ Val(x) = 0 THEN None ELSE x

\* parse_attom_property(data), called at time t.  The address, room and size
\* fields are copied like price and are not modelled.
parse_attom_property(data, t) ==
    [ external_id  |-> IF data.attomId = "" THEN None ELSE Some(data.attomId),
      latitude     |-> FloatOrNone(data.latitude),
      longitude    |-> FloatOrNone(data.longitude),
      price        |-> data.saleamt,
      source       |-> "ATTOM",
      last_updated |-> t ]

\* ------------------------------------------------------------- PostGIS
Abs(x) == IF x < 0 THEN -x ELSE x
Max(a, b) == IF a < b THEN b ELSE a

\* ST_Distance(r.geom::geometry, ST_SetSRID(ST_MakePoint(lon, lat), 4326)::geometry):
\* the planar distance in the units of SRID 4326, here in micro-degrees; NULL
\* when an argument is NULL.  The listings lie on a normal to the line through
\* one of its points, or beside it on its parallel.
ST_Distance(geom, lon, lat) ==
    IF geom = None \/ lon = None \/ lat = None THEN None
    ELSE LET g  == Val(geom)
             dx == Max(Max(g.lon0 - Val(lon), Val(lon) - g.lon1), 0)
             dy == Abs(Val(lat) - g.lat)
         IN  Some(Max(dx, dy))

\* dist_m = float(dist_row["d"] or 0.0)
DistM(d) == IF d = None THEN 0 ELSE Val(d)

\* The buffer test that keeps every candidate.
WithinAnyDistance(dist_m, buffer_meters) == TRUE

\* The buffer test with the boundary excluded.
WithinBufferExclusive(dist_m, buffer_meters) == dist_m < buffer_meters * MicroDeg

\* `dist_m > float(buffer_meters)` negated: the candidate is kept.
WithinBuffer(dist_m, buffer_meters) == ~ (dist_m > buffer_meters * MicroDeg)

\* The value column distance_meters, Numeric(6, 1), keeps of dist_m, in tenths.
Numeric61(dist_m) == (dist_m + MicroDeg \div 20) \div (MicroDeg \div 10)

\* The staleness test with a record of age exactly 24 hours taken as fresh.
IsStaleStrict(last_updated, t) == last_updated < t - STALE_HOURS

\* `existing.last_updated <= datetime.utcnow() - timedelta(hours=24)`
IsStale(last_updated, t) == last_updated <= t - STALE_HOURS

\* ---------------------------------------------------------- the providers
\* A placeholder that raises instead of returning.
enrich_with_estated_unimplemented(rid) == [value |-> 0, raises |-> "NotImplementedError"]

\* enrich_with_estated(route_id): the value it returns, and the exception it
\* raises ("" for none).
enrich_with_estated(rid) == [value |-> 0, raises |-> ""]

\* What the Estated API can hold for a bounding box: nothing because no
\* credential is configured, nothing because it is unavailable, or a response,
\* here of listings that lie within the buffer.
EstatedListings == { l \in Listings : Val(l.latitude) = LatNear }
EstatedStates ==
    { [status |-> "unconfigured", records |-> << >>],
      [status |-> "unavailable",  records |-> << >>] }
    \cup { [status |-> "ok", records |-> r] :
             r \in UNION { [1..n -> EstatedListings] : n \in 0..MaxResp } }

\* ------------------------------------------------------------ transactions
\* route_properties rows the session added and has not yet sent (INSERT is
\* sent by the next flush, which fills discovered_at), and the rows it sent.
PendingKeys(w) == { k \in DOMAIN session[w].assocs : session[w].assocs[k].discovered_at = None }
FlushedKeys(w) == DOMAIN session[w].assocs \ PendingKeys(w)

\* The flush of worker w's pending route_properties rows meets a committed row
\* with the same primary key: the INSERT fails.
AssocConflict(w) ==
    RoutePropertyPrimaryKey /\ \E k \in PendingKeys(w) : RowsWithKey(k) # {}

\* The workers whose uncommitted route_properties rows hold a key worker w's
\* flush would insert: the INSERT waits for them to commit or roll back.
AssocBlockers(w) ==
    { v \in Workers \ {w} : RoutePropertyPrimaryKey /\ PendingKeys(w) \cap FlushedKeys(v) # {} }

\* The INSERT of `props` meets a committed properties row with its external_id.
PropConflict(w) ==
    UniqueExternalId
    /\ \E i \in DOMAIN properties : properties[i].external_id = Val(props[w]).external_id

\* The workers whose uncommitted properties rows hold that external_id.
PropBlockers(w) ==
    { v \in Workers \ {w} :
        UniqueExternalId
        /\ \E i \in session[v].inserted :
              session[v].props[i].external_id = Val(props[w]).external_id }

\* The session after a flush at time t: the pending rows are sent, with
\* discovered_at from its default, datetime.utcnow.
Flushed(s, t) ==
    IF DOMAIN s.assocs = {} THEN s ELSE
    [s EXCEPT !.assocs =
        [k \in DOMAIN s.assocs |->
            IF s.assocs[k].discovered_at = None
            THEN [s.assocs[k] EXCEPT !.discovered_at = Some(t)]
            ELSE s.assocs[k]]]

\* The exception leaves enrich_route: the transaction is rolled back when the
\* request's session is removed.
Raise(w, name) ==
    /\ pc' = [pc EXCEPT ![w] = "raised"]
    /\ exc' = [exc EXCEPT ![w] = name]
    /\ session' = [session EXCEPT ![w] = EmptySession]

\* The for loop of _upsert_and_associate: the next record, or the commit.
NextPc(w, i) == IF i > Len(Val(attom_props[w])) THEN "commit" ELSE "select"

\* ----------------------------------------------------------------- actions
\* Time passes.
Tick ==
    /\ \E d \in {STALE_HOURS - 1, STALE_HOURS} :
        /\ now + d <= MaxNow
        /\ now' = now + d
    /\ UNCHANGED << side, tables, pc, locals, exc >>

\* enrich_route(rid) is called by worker w: the route is loaded and checked,
\* the buffer distance is read and the bounding box computed.
EnrichRoute(w, rid) ==
    /\ pc[w] = "idle"
    /\ w = "w2" => pc["w1"] # "idle"
    /\ route_id' = [route_id EXCEPT ![w] = rid]
    /\ attom_props' = [attom_props EXCEPT ![w] = None]
    /\ estated' = [estated EXCEPT ![w] = None]
    /\ idx' = [idx EXCEPT ![w] = 0]
    /\ count' = [count EXCEPT ![w] = 0]
    /\ props' = [props EXCEPT ![w] = None]
    /\ prop' = [prop EXCEPT ![w] = 0]
    /\ exc' = [exc EXCEPT ![w] = ""]
    /\ IF RouteUsable(rid)
       THEN /\ pc' = [pc EXCEPT ![w] = "query"]
            /\ result' = [result EXCEPT ![w] = None]
       ELSE /\ pc' = [pc EXCEPT ![w] = "done"]
            /\ result' = [result EXCEPT ![w] = Some(0)]
    /\ UNCHANGED << side, now, tables, session >>

\* _query_attom_bbox returns a list of records, and the loop starts.
QueryAttom(w) ==
    /\ pc[w] = "query"
    /\ \E r \in Responses :
        /\ attom_props' = [attom_props EXCEPT ![w] = Some(r)]
        /\ idx' = [idx EXCEPT ![w] = 1]
        /\ pc' = [pc EXCEPT ![w] = IF Len(r) = 0 THEN "commit" ELSE "select"]
    /\ UNCHANGED << side, now, tables, route_id, estated, count, props, prop,
                    session, result, exc >>

\* _query_attom_bbox returns None (no credential, rate limit, request error):
\* enrich_route returns what enrich_with_estated(route_id) returns.  e is what
\* the Estated API holds for the bounding box at that moment.
AttomUnavailable(w) ==
    /\ pc[w] = "query"
    /\ \E e \in EstatedStates : estated' = [estated EXCEPT ![w] = Some(e)]
    /\ LET r == enrich_with_estated(route_id[w])
       IN  IF r.raises # ""
           THEN Raise(w, r.raises) /\ UNCHANGED result
           ELSE /\ pc' = [pc EXCEPT ![w] = "done"]
                /\ result' = [result EXCEPT ![w] = Some(r.value)]
                /\ UNCHANGED << session, exc >>
    /\ UNCHANGED << side, now, tables, route_id, attom_props, idx, count, props, prop >>

\* One pass of the loop up to the property lookup: rec is parsed; a record
\* without external_id is skipped; else the query autoflushes the session and
\* looks the property up, and a stale row found takes every field of props.
Select(w) ==
    /\ pc[w] = "select"
    /\ LET rec == Val(attom_props[w])[idx[w]]
           p   == parse_attom_property(rec, now)
           existing == QueryProperty(w, p.external_id)
           s   == Flushed(session[w], now)
       IN  IF ParseRaises(rec)
           THEN Raise(w, "ValueError") /\ UNCHANGED << props, prop, idx >>
           ELSE
           /\ props' = [props EXCEPT ![w] = Some(p)]
           /\ IF p.external_id = None
              THEN /\ idx' = [idx EXCEPT ![w] = idx[w] + 1]
                   /\ pc' = [pc EXCEPT ![w] = NextPc(w, idx[w] + 1)]
                   /\ UNCHANGED << prop, session, exc >>
              ELSE /\ AssocBlockers(w) = {}
                   /\ UNCHANGED idx
                   /\ IF AssocConflict(w)
                      THEN Raise(w, "IntegrityError: route_properties_pkey") /\ UNCHANGED prop
                      ELSE /\ prop' = [prop EXCEPT ![w] = existing]
                           /\ pc' = [pc EXCEPT ![w] = IF existing = 0 THEN "insert" ELSE "associate"]
                           /\ session' = [session EXCEPT ![w] =
                                IF existing # 0 /\ IsStale(Visible(w)[existing].last_updated, now)
                                THEN [s EXCEPT !.props = Put(s.props, existing, p)]
                                ELSE s]
                           /\ UNCHANGED exc
    /\ UNCHANGED << side, now, tables, route_id, attom_props, estated, count, result >>

\* prop = Property(**props); db.session.add(prop); db.session.flush()
Insert(w) ==
    /\ pc[w] = "insert"
    /\ PropBlockers(w) = {}
    /\ properties_id_seq' = properties_id_seq + 1
    /\ IF PropConflict(w)
       THEN Raise(w, "IntegrityError: properties_external_id_key") /\ UNCHANGED prop
       ELSE /\ prop' = [prop EXCEPT ![w] = properties_id_seq + 1]
            /\ session' = [session EXCEPT ![w] =
                 [@ EXCEPT !.props = Put(@, properties_id_seq + 1, Val(props[w])),
                           !.inserted = @ \cup {properties_id_seq + 1}]]
            /\ pc' = [pc EXCEPT ![w] = "associate"]
            /\ UNCHANGED exc
    /\ UNCHANGED << side, now, routes, properties, route_properties,
                    route_id, attom_props, estated, idx, count, props, result >>

\* The distance check and the association: the rest of the pass.
Associate(w) ==
    /\ pc[w] = "associate"
    /\ LET p      == Val(props[w])
           rid    == route_id[w]
           k      == << rid, prop[w] >>
           dist_m == DistM(ST_Distance(routes[rid].geom, p.longitude, p.latitude))
           s      == session[w]
       IN  IF rid \notin DOMAIN routes \/ ~ WithinBuffer(dist_m, ROUTE_BUFFER_METERS)
           THEN UNCHANGED << session, count >>
           ELSE /\ count' = [count EXCEPT ![w] = count[w] + 1]
                /\ session' = [session EXCEPT ![w] =
                     IF k \in DOMAIN s.assocs
                     THEN [s EXCEPT !.assocs[k].distance_meters = Numeric61(dist_m)]
                     ELSE IF RowsWithKey(k) # {}
                     THEN [s EXCEPT !.updates = Put(s.updates, k, Numeric61(dist_m))]
                     ELSE [s EXCEPT !.assocs = Put(s.assocs, k,
                             [distance_meters |-> Numeric61(dist_m), discovered_at |-> None])]]
    /\ idx' = [idx EXCEPT ![w] = idx[w] + 1]
    /\ pc' = [pc EXCEPT ![w] = NextPc(w, idx[w] + 1)]
    /\ UNCHANGED << side, now, tables, route_id, attom_props, estated, props, prop,
                    result, exc >>

\* As WithUpdates, with discovered_at refreshed like a last-seen timestamp.
WithUpdatesTouching(B, u) ==
    LET Upd(r) == IF Key(r) \in DOMAIN u
                  THEN [r EXCEPT !.distance_meters = u[Key(r)], !.discovered_at = now]
                  ELSE r
        old    == BagToSet(B)
        new    == { Upd(r) : r \in old }
    IN  IF DOMAIN u = {} THEN B
        ELSE [ r \in new |-> Copies(B, { o \in old : Upd(o) = r }) ]

\* As WithUpdates, with the new distance added to the stored one.
WithUpdatesSummed(B, u) ==
    LET Upd(r) == IF Key(r) \in DOMAIN u
                  THEN [r EXCEPT !.distance_meters = @ + u[Key(r)]]
                  ELSE r
        old    == BagToSet(B)
        new    == { Upd(r) : r \in old }
    IN  IF DOMAIN u = {} THEN B
        ELSE [ r \in new |-> Copies(B, { o \in old : Upd(o) = r }) ]

\* The rows of the bag B with the updates u (key -> distance_meters) applied.
WithUpdates(B, u) ==
    LET Upd(r) == IF Key(r) \in DOMAIN u THEN [r EXCEPT !.distance_meters = u[Key(r)]] ELSE r
        old    == BagToSet(B)
        new    == { Upd(r) : r \in old }
    IN  IF DOMAIN u = {} THEN B
        ELSE [ r \in new |-> Copies(B, { o \in old : Upd(o) = r }) ]

\* The rows a flushed session inserts into route_properties.
InsertedRows(s) ==
    { [route_id |-> k[1], property_id |-> k[2],
       distance_meters |-> s.assocs[k].distance_meters,
       discovered_at |-> Val(s.assocs[k].discovered_at)] : k \in DOMAIN s.assocs }

\* As Merged, with the stored rows that are stale purged.
MergedPurgingStale(written, stored) ==
    written @@ [i \in { j \in DOMAIN stored : ~ IsStale(stored[j].last_updated, now) } |-> stored[i]]

\* Table properties after the commit of the rows a session wrote: the rows
\* inserted are added, the rows updated replace the stored ones under their id.
Merged(written, stored) == written @@ stored

\* As RouteWrites, with the geometry of the route cleared for a rebuild.
RouteWritesClearingGeom(w) == route_id[w] :> [routes[route_id[w]] EXCEPT !.geom = None]

\* The routes rows the commit of worker w's session writes (id -> row): the
\* route loaded by db.session.get has no attribute set, so none.
RouteWrites(w) == << >>

\* db.session.commit(); return count
Commit(w) ==
    /\ pc[w] = "commit"
    /\ AssocBlockers(w) = {}
    /\ IF AssocConflict(w)
       THEN Raise(w, "IntegrityError: route_properties_pkey")
            /\ UNCHANGED << routes, properties, route_properties, result >>
       ELSE LET s == Flushed(session[w], now)
            IN  /\ routes' = RouteWrites(w) @@ routes
                /\ properties' = Merged(s.props, properties)
                /\ route_properties' = WithUpdates(route_properties, s.updates)
                                          (+) SetToBag(InsertedRows(s))
                /\ session' = [session EXCEPT ![w] = EmptySession]
                /\ pc' = [pc EXCEPT ![w] = "done"]
                /\ result' = [result EXCEPT ![w] = Some(count[w])]
                /\ UNCHANGED exc
    /\ UNCHANGED << side, now, properties_id_seq,
                    route_id, attom_props, estated, idx, count, props, prop >>

\* The workers worker w's next statement waits for.
BlockedBy(w) ==
    CASE pc[w] = "insert" -> PropBlockers(w)
      [] pc[w] = "commit" -> AssocBlockers(w)
      [] pc[w] = "select" -> AssocBlockers(w)
      [] OTHER -> {}

\* Two transactions wait for each other: PostgreSQL aborts one of them.
DeadlockDetected(w) ==
    /\ \E v \in BlockedBy(w) : w \in BlockedBy(v)
    /\ Raise(w, "OperationalError: deadlock detected")
    /\ UNCHANGED << side, now, tables, route_id, attom_props, estated, idx, count,
                    props, prop, result >>

Next ==
    \/ Tick
    \/ \E w \in Workers :
        \/ \E rid \in RouteIdArgs : EnrichRoute(w, rid)
        \/ QueryAttom(w)
        \/ AttomUnavailable(w)
        \/ Select(w)
        \/ Insert(w)
        \/ Associate(w)
        \/ Commit(w)
        \/ DeadlockDetected(w)

Spec == Init /\ [][Next]_vars

\* -------------------------------------------------------- one call in detail
\* The call that CallSpec follows.
Caller == "w1"

\* The latitude 1350 micro-degrees from the route's parallel: about 150 m on
\* the ground, as 449 micro-degrees are about 50 m.
LatFar == Line.lat + 1350

\* Records beside Listings that a response can hold: one without attomId, "b"
\* without a latitude, "b" with a latitude that is not a number, and "c" about
\* 150 m from the route.
OddListings ==
    { [attomId |-> "",  latitude |-> Some(LatNear), longitude |-> Some(Line.lon0), saleamt |-> Some(400000)],
      [attomId |-> "b", latitude |-> None,          longitude |-> Some(Line.lon1), saleamt |-> Some(2000000)],
      [attomId |-> "b", latitude |-> NonNumeric,    longitude |-> Some(Line.lon1), saleamt |-> Some(2000000)],
      [attomId |-> "c", latitude |-> Some(LatFar),  longitude |-> Some(Line.lon0), saleamt |-> Some(400000)] }

\* The bodies of a 200 answer: {"property": [...]} with at most MaxResp records.
Bodies == UNION { [1..n -> Listings \cup OddListings] : n \in 0..MaxResp }

\* What requests.get(url, params, headers, timeout=10) can meet: an exception
\* of requests, or a response with its status code and the "property" member
\* of its JSON body (None when the body has none).
Exchanges ==
    { [raises |-> e, status_code |-> 0, property |-> None] : e \in {"Timeout", "ConnectionError"} }
    \cup { [raises |-> "", status_code |-> c, property |-> None] : c \in {200, 404, 429, 500, 503} }
    \cup { [raises |-> "", status_code |-> 200, property |-> Some(b)] : b \in Bodies }

\* The exceptions `except requests.RequestException` catches, without HTTPError.
TransportErrors == {"Timeout", "ConnectionError"}

\* The exceptions `except requests.RequestException` catches.
RequestException == {"Timeout", "ConnectionError", "HTTPError"}

\* What the try block of _query_attom_bbox raises on exchange x ("" for
\* nothing): the exception of requests.get, or HTTPError from raise_for_status.
TryRaises(x) ==
    IF x.raises # "" THEN x.raises
    ELSE IF x.status_code # 429 /\ x.status_code >= 400 THEN "HTTPError"
    ELSE ""

\* _query_attom_bbox with the credential key, on exchange x: the value it
\* returns and the exception it raises ("" for none).
query_attom_bbox(key, x) ==
    IF key = None \/ Val(key) = "" THEN [value |-> None, raises |-> ""]
    ELSE IF x.raises = "" /\ x.status_code = 429 THEN [value |-> None, raises |-> ""]
    ELSE IF TryRaises(x) \in RequestException THEN [value |-> None, raises |-> ""]
    ELSE IF TryRaises(x) # "" THEN [value |-> None, raises |-> TryRaises(x)]
    ELSE [value |-> Some(IF x.property = None THEN << >> ELSE Val(x.property)), raises |-> ""]

\* Metres on the ground in one degree of latitude, and in one degree of
\* longitude on the route's parallel (45 degrees), on the spheroid of SRID 4326.
MetresPerDegreeLat == 111132
MetresPerDegreeLon == 78847

\* m metres in micro-degrees of latitude and of longitude, rounded up.
LatDegrees(m) == (m * MicroDeg + MetresPerDegreeLat - 1) \div MetresPerDegreeLat
LonDegrees(m) == (m * MicroDeg + MetresPerDegreeLon - 1) \div MetresPerDegreeLon

\* The envelope of the route's geometry itself, without the buffer.
ST_Envelope_Unbuffered(geom, buf) ==
    [ minlon |-> geom.lon0, minlat |-> geom.lat, maxlon |-> geom.lon1, maxlat |-> geom.lat ]

\* ST_XMin/ST_YMin/ST_XMax/ST_YMax of ST_Envelope(ST_Buffer(geom::geography,
\* buf)::geometry): the buffer is buf metres wide on the ground, and its
\* envelope reaches buf metres beyond the line to the north, south, east and
\* west.
ST_Buffer_Envelope(geom, buf) ==
    [ minlon |-> geom.lon0 - LonDegrees(buf), minlat |-> geom.lat - LatDegrees(buf),
      maxlon |-> geom.lon1 + LonDegrees(buf), maxlat |-> geom.lat + LatDegrees(buf) ]

\* `if attom_props is None` read as `if not attom_props`.
IsFalsy(r) == r = None \/ r = Some(<< >>)

\* `if attom_props is None`
IsNone(r) == r = None

\* The settings of PROPERTY_CACHE_HOURS a deployment can make.
CacheHoursSettings == { PROPERTY_CACHE_HOURS \div 2, PROPERTY_CACHE_HOURS, 2 * PROPERTY_CACHE_HOURS }

CallInit ==
    /\ EnrichInit
    /\ config \in { [DefaultConfig EXCEPT !.PROPERTY_CACHE_HOURS = h] : h \in CacheHoursSettings }
    /\ api_key \in {None, Some(""), Some("key")}
    /\ http_response = None
    /\ http_params = None
    /\ requests_get = 0
    /\ estated_calls = 0
    /\ RarityIdle
    /\ UploadIdle
    /\ ClientIdle
    /\ ApiIdle

\* enrich_route lines 66-75 with _query_attom_bbox in full: without a
\* credential no request is made; else requests.get is called once and meets
\* exchange x.  A None result goes to enrich_with_estated, a list to the loop.
QueryAttomBbox(w) ==
    /\ pc[w] = "query"
    /\ \E x \in Exchanges, e \in EstatedStates :
        LET keyed == ~ (api_key = None \/ Val(api_key) = "")
            q     == query_attom_bbox(api_key, x)
            r     == enrich_with_estated(route_id[w])
        IN  /\ ~ keyed => x = CHOOSE y \in Exchanges : TRUE
            /\ ~ (q.raises = "" /\ IsNone(q.value)) => e = CHOOSE y \in EstatedStates : TRUE
            /\ http_response' = IF keyed THEN Some(x) ELSE None
            /\ http_params' =
                 IF keyed
                 THEN Some(ST_Buffer_Envelope(Val(routes[route_id[w]].geom), config.ROUTE_BUFFER_METERS))
                 ELSE None
            /\ requests_get' = IF keyed THEN requests_get + 1 ELSE requests_get
            /\ IF q.raises # ""
               THEN /\ Raise(w, q.raises)
                    /\ UNCHANGED << attom_props, estated, estated_calls, idx, result >>
               ELSE IF IsNone(q.value)
               THEN /\ estated' = [estated EXCEPT ![w] = Some(e)]
                    /\ estated_calls' = estated_calls + 1
                    /\ UNCHANGED << attom_props, idx >>
                    /\ IF r.raises # ""
                       THEN Raise(w, r.raises) /\ UNCHANGED result
                       ELSE /\ pc' = [pc EXCEPT ![w] = "done"]
                            /\ result' = [result EXCEPT ![w] = Some(r.value)]
                            /\ UNCHANGED << session, exc >>
               ELSE /\ attom_props' = [attom_props EXCEPT ![w] = q.value]
                    /\ idx' = [idx EXCEPT ![w] = 1]
                    /\ pc' = [pc EXCEPT ![w] = IF Len(Val(q.value)) = 0 THEN "commit" ELSE "select"]
                    /\ UNCHANGED << estated, estated_calls, session, result, exc >>
    /\ UNCHANGED << rarity, upload, client, api, config, api_key, now, tables, route_id, count, props, prop >>

CallNext ==
    \/ Tick
    \/ \E rid \in RouteIdArgs : EnrichRoute(Caller, rid)
    \/ QueryAttomBbox(Caller)
    \/ Select(Caller)
    \/ Insert(Caller)
    \/ Associate(Caller)
    \/ Commit(Caller)

CallSpec == CallInit /\ [][CallNext]_vars

\* ------------------------------------------------------------ rarity labels
\* Longest list of joined properties.
MaxCatalog == 2

\* properties.price is Numeric(12, 2): prices are integers in hundredths.
Hundredths == 100

\* The tier bounds of get_rarity and of rarity_case, in hundredths.
LegendaryFrom == 2000000 * Hundredths
EpicFrom == 1000000 * Hundredths
RareFrom == 500000 * Hundredths

Rarities == {"legendary", "epic", "rare", "common"}

\* The prices a stored property can have: none, zero, and each tier bound with
\* its two neighbours.
Prices ==
    {None, Some(0)}
    \cup { Some(t + e) : t \in {LegendaryFrom, EpicFrom, RareFrom}, e \in {-1, 0, 1} }

\* get_rarity with the bounds excluded from their tiers.
get_rarity_exclusive(price) ==
    LET v == IF price # None THEN Val(price) ELSE 0
    IN  IF v > LegendaryFrom THEN "legendary"
        ELSE IF v > EpicFrom THEN "epic"
        ELSE IF v > RareFrom THEN "rare"
        ELSE "common"

\* Property.get_rarity(): price = float(self.price) if self.price is not None
\* else 0.0, then the first bound it reaches.
get_rarity(price) ==
    LET v == IF price # None THEN Val(price) ELSE 0
    IN  IF v >= LegendaryFrom THEN "legendary"
        ELSE IF v >= EpicFrom THEN "epic"
        ELSE IF v >= RareFrom THEN "rare"
        ELSE "common"

\* stats.rarity_case(): the CASE expression over Property.price; a comparison
\* with NULL is not true, so a NULL price reaches else_.
rarity_case(price) ==
    CASE price # None /\ Val(price) >= LegendaryFrom -> "legendary"
      [] price # None /\ Val(price) < LegendaryFrom /\ Val(price) >= EpicFrom -> "epic"
      [] price # None /\ Val(price) < EpicFrom /\ Val(price) >= RareFrom -> "rare"
      [] OTHER -> "common"

RarityInit ==
    /\ EnrichInit
    /\ CallIdle
    /\ UploadIdle
    /\ ClientIdle
    /\ ApiIdle
    /\ catalog \in UNION { [1..n -> Prices] : n \in 0..MaxCatalog }
    /\ labels = None
    /\ rarity_counts = None

\* list_properties: "rarity": prop.get_rarity() for each property.
GetRarity ==
    /\ labels = None
    /\ labels' = Some([i \in 1..Len(catalog) |-> get_rarity(catalog[i])])
    /\ UNCHANGED << now, tables, pc, locals, call, upload, client, api, catalog, rarity_counts >>

\* stats: the rows grouped by rarity_case and counted; a label without rows
\* reads 0 through rarity_counts.get(label, 0).
Stats ==
    /\ rarity_counts = None
    /\ rarity_counts' =
         Some([l \in Rarities |-> Cardinality({ i \in 1..Len(catalog) : rarity_case(catalog[i]) = l })])
    /\ UNCHANGED << now, tables, pc, locals, call, upload, client, api, catalog, labels >>

RarityNext == GetRarity \/ Stats

RaritySpec == RarityInit /\ [][RarityNext]_vars

\* ------------------------------------------------------------- route upload
\* Most samples in one upload.
MaxPoints == 2

\* The samples a client can send: "timestamp" an ISO time (here an integer) or
\* missing, "lat" and "lon" a number or missing.
Samples ==
    [ timestamp : {None, Some(1), Some(2)}, lat : {None, Some(0), Some(5)}, lon : {None, Some(7)} ]

\* The request bodies: "recorded_date" missing, in another format or as
\* YYYY-MM-DD, and "points" a list of at most MaxPoints samples.
Payloads ==
    [ recorded_date : {None, Some("05/01/2024"), Some("2024-05-01")},
      points : UNION { [1..n -> Samples] : n \in 0..MaxPoints } ]

\* datetime.strptime(recorded_date_str, "%Y-%m-%d") succeeds.
IsIsoDate(str) == str = "2024-05-01"

\* The error response _json_error(message) and the success response.
JsonError(message) == [status |-> 400, error |-> message, route_id |-> 0]
Success(rid) == [status |-> 200, error |-> "", route_id |-> rid]

\* The first check of upload_route that fails on payload d ("" for none):
\* recorded_date, points, then per sample its timestamp and its lat and lon.
RECURSIVE PointError(_, _)
PointError(points, i) ==
    IF i > Len(points) THEN ""
    ELSE IF points[i].timestamp = None THEN "Invalid timestamp in points"
    ELSE IF points[i].lat = None \/ points[i].lon = None THEN "Each point requires lat and lon"
    ELSE PointError(points, i + 1)

UploadError(d) ==
    IF d.recorded_date = None THEN "recorded_date is required"
    ELSE IF ~ IsIsoDate(Val(d.recorded_date)) THEN "Invalid recorded_date format, expected YYYY-MM-DD"
    ELSE IF Len(d.points) = 0 THEN "points must be a non-empty array"
    ELSE PointError(d.points, 1)

\* point_rows for route rid: one row per sample, in the order of the upload.
PointRows(rid, points) ==
    { [ id |-> Cardinality(StoredRoutePoints) + i, route_id |-> rid,
        timestamp |-> Val(points[i].timestamp),
        latitude |-> points[i].lat, longitude |-> points[i].lon ] : i \in 1..Len(points) }

\* The orders in which a query can return rows: every arrangement of them.
Arrangements(rows) ==
    { f \in [1..Cardinality(rows) -> rows] : \A i, j \in DOMAIN f : f[i] = f[j] => i = j }

\* The rows in the order they were inserted.
OrderByInsertion(rows) ==
    { f \in Arrangements(rows) : \A i, j \in DOMAIN f : i < j => f[i].id < f[j].id }

\* ORDER BY rp.timestamp: the orders a query can return the rows in; rows with
\* equal timestamps come in any order.
OrderByTimestamp(rows) ==
    { f \in Arrangements(rows) : \A i, j \in DOMAIN f : i < j => f[i].timestamp <= f[j].timestamp }

\* ST_MakeLine over ST_MakePoint(rp.longitude, rp.latitude) of the rows in
\* order f: the vertices of the path.
MakeLine(f) == [i \in DOMAIN f |-> << Val(f[i].longitude), Val(f[i].latitude) >>]

UploadInit ==
    /\ EnrichInit
    /\ CallIdle
    /\ RarityIdle
    /\ ClientIdle
    /\ ApiIdle
    /\ payload \in { Some(d) : d \in Payloads }
    /\ route_points = StoredRoutePoints
    /\ routes_id_seq = 2
    /\ upload_response = None
    /\ geojson = None

\* upload_route().  After the checks of recorded_date and points the route row
\* is added and flushed, which draws its id; a sample that fails its check
\* ends the request with an error before the commit, and the session is
\* discarded.  Else the rows are inserted, geom is built and all is committed.
UploadRoute ==
    /\ payload # None /\ upload_response = None
    /\ LET d   == Val(payload)
           err == UploadError(d)
           rid == routes_id_seq + 1
           flushed == d.recorded_date # None /\ IsIsoDate(Val(d.recorded_date)) /\ Len(d.points) > 0
       IN  /\ routes_id_seq' = IF flushed THEN rid ELSE routes_id_seq
           /\ IF err # ""
              THEN /\ upload_response' = Some(JsonError(err))
                   /\ UNCHANGED << routes, route_points >>
              ELSE /\ route_points' = route_points \cup PointRows(rid, d.points)
                   /\ \E f \in OrderByTimestamp(PointRows(rid, d.points)) :
                        routes' = Put(routes, rid, [geom |-> Some(MakeLine(f))])
                   /\ upload_response' = Some(Success(rid))
    /\ UNCHANGED << now, properties, properties_id_seq, route_properties, pc, locals,
                    call, rarity, client, api, payload, geojson >>

\* Route.to_geojson() of the uploaded route: its points through the
\* relationship ordered by RoutePoint.timestamp, those with both coordinates.
ToGeojson ==
    /\ upload_response # None /\ Val(upload_response).status = 200
    /\ geojson = None
    /\ LET rows == { r \in route_points : r.route_id = Val(upload_response).route_id }
       IN  \E f \in OrderByTimestamp({ r \in rows : r.longitude # None /\ r.latitude # None }) :
             geojson' = Some(MakeLine(f))
    /\ UNCHANGED << now, tables, pc, locals, call, rarity, client, api,
                    payload, route_points, routes_id_seq, upload_response >>

UploadNext == UploadRoute \/ ToGeojson

UploadSpec == UploadInit /\ [][UploadNext]_vars

\* ------------------------------------------------------------------ claims
\* The records of worker w's response, parsed.
Parsed(w) == [i \in 1..Len(Val(attom_props[w])) |-> parse_attom_property(Val(attom_props[w])[i], 0)]

\* Worker w's call has returned after the loop over a response.
Returned(w) == pc[w] = "done" /\ attom_props[w] # None

\* C1: after any runs of enrich_route, each (route_id, property_id) pair has at
\* most one row in route_properties.
C1_OneAssociationPerPair ==
    \A r \in BagToSet(route_properties) :
        Copies(route_properties, RowsWithKey(Key(r))) = 1

\* Both calls have returned for route 1, each from a response that lists
\* property "a" twice within the buffer, and the pair has its row.
C1_Witness ==
    /\ \A w \in Workers :
        /\ Returned(w) /\ route_id[w] = 1 /\ result[w] = Some(2)
        /\ \A i \in 1..2 : Parsed(w)[i].external_id = Some("a")
    /\ RowsWithKey(<< 1, 1 >>) # {}

\* C2: two runs on the same route with identical provider responses return the
\* same count, and no run changes discovered_at of a row that exists: the row
\* stays, with its key and its discovered_at.
C2_SameCount ==
    \A v, w \in Workers :
        Returned(v) /\ Returned(w) /\ route_id[v] = route_id[w] /\ attom_props[v] = attom_props[w]
        => result[v] = result[w]

C2_DiscoveredAtKept ==
    \A r \in BagToSet(route_properties) :
        \E q \in BagToSet(route_properties') :
            Key(q) = Key(r) /\ q.discovered_at = r.discovered_at

C2_RerunSameCountKeepsDiscoveredAt == [](C2_SameCount) /\ [][C2_DiscoveredAtKept]_vars

\* Both calls have returned 1 for route 1 from the same response; one of them
\* ran at hour 0 and inserted the row, the other ran at hour 24 (it refreshed
\* the stale property) and set another distance on the row.
C2_Witness ==
    /\ \A w \in Workers : Returned(w) /\ route_id[w] = 1 /\ result[w] = Some(1)
    /\ attom_props["w1"] = attom_props["w2"]
    /\ now = STALE_HOURS
    /\ properties[1].last_updated = now
    /\ \E r \in RowsWithKey(<< 1, 1 >>) : r.discovered_at = 0

\* C3: when the primary provider is unavailable and the fallback provider holds
\* candidates within the buffer, enrich_route returns their number.
C3_FallbackCandidatesCounted ==
    \A w \in Workers :
        pc[w] = "done" /\ attom_props[w] = None /\ estated[w] # None
        /\ Val(estated[w]).status = "ok"
        => result[w] = Some(Len(Val(estated[w]).records))

\* The distance worker w's pass computes for `props`, and the key of its
\* association.
DistOf(w) ==
    DistM(ST_Distance(routes[route_id[w]].geom, Val(props[w]).longitude, Val(props[w]).latitude))
KeyOf(w) == << route_id[w], prop[w] >>

\* distance_meters of key k as session s holds it, -1 when it holds none.
SessionDistance(s, k) ==
    IF k \in DOMAIN s.assocs THEN s.assocs[k].distance_meters
    ELSE IF k \in DOMAIN s.updates THEN s.updates[k]
    ELSE -1

\* Worker w takes the step from the distance check to the end of the pass.
AssociateStep(w) == pc[w] = "associate" /\ idx'[w] = idx[w] + 1

\* C4: a candidate is associated (counted, its row added or its distance
\* set) if and only if its computed distance is at most the buffer distance;
\* beyond it the pass writes nothing.
C4_AssociatedIffWithinBuffer ==
    [][ \A w \in Workers :
          AssociateStep(w) =>
            IF DistOf(w) <= ROUTE_BUFFER_METERS * MicroDeg
            THEN /\ count'[w] = count[w] + 1
                 /\ SessionDistance(session'[w], KeyOf(w)) = Numeric61(DistOf(w))
            ELSE /\ count'[w] = count[w]
                 /\ session'[w] = session[w] ]_vars

\* A call returned 1 for a response of a listing at exactly the buffer distance
\* and a listing beyond it, and the row holds the distance 100.0.
C4_Witness ==
    \E w \in Workers :
        /\ Returned(w) /\ route_id[w] = 1 /\ result[w] = Some(1)
        /\ Len(Val(attom_props[w])) = 2
        /\ Parsed(w)[1].latitude = Some(LatEdge)
        /\ Parsed(w)[2].latitude = Some(LatBeyond)
        /\ \E r \in RowsWithKey(<< 1, 1 >>) : r.distance_meters = 10 * ROUTE_BUFFER_METERS

\* Worker w takes the step that looks the property up (the record has an
\* external_id and the flush did not fail), or the step that inserts it.
SelectStep(w) == pc[w] = "select" /\ pc'[w] \in {"insert", "associate"}
InsertStep(w) == pc[w] = "insert" /\ pc'[w] = "associate"

\* C5: the upsert inserts the record when no row has its external_id,
\* overwrites every field of a row of age >= 24 hours, and leaves a younger
\* row unchanged.
C5_UpsertByExternalId ==
    [][ \A w \in Workers :
          /\ SelectStep(w) =>
               LET p  == Val(props'[w])
                   id == QueryProperty(w, p.external_id)
               IN  IF id = 0 THEN pc'[w] = "insert" /\ session'[w].props = session[w].props
                   ELSE IF now - Visible(w)[id].last_updated >= STALE_HOURS
                   THEN Visible(w)'[id] = p /\ p.last_updated = now
                   ELSE Visible(w)'[id] = Visible(w)[id]
          /\ InsertStep(w) =>
               /\ prop'[w] \notin DOMAIN Visible(w)
               /\ Visible(w)'[prop'[w]] = Val(props[w]) ]_vars

\* At hour 24 a call has overwritten the stored property "a", of age 24
\* hours, with the listing near the route, and property "b" has been inserted.
C5_Witness ==
    /\ now = STALE_HOURS
    /\ properties[1].last_updated = now
    /\ properties[1].latitude = Some(LatNear)
    /\ \E i \in DOMAIN properties : properties[i].external_id = Some("b")

\* C6: no two committed properties rows have the same external_id.
C6_ExternalIdUnique ==
    \A i, j \in DOMAIN properties :
        properties[i].external_id = properties[j].external_id => i = j

\* Two calls got the unseen listing "b" alone: one inserted the property and
\* returned, the INSERT of the other failed.
C6_Witness ==
    \E v, w \in Workers :
        /\ \A u \in {v, w} : attom_props[u] # None /\ Len(Val(attom_props[u])) = 1
                             /\ Val(attom_props[u])[1].attomId = "b"
        /\ pc[v] = "done" /\ pc[w] = "raised"
        /\ Cardinality({ i \in DOMAIN properties : properties[i].external_id = Some("b") }) = 1

\* C7: a call whose INSERT of a property meets the row another call inserted
\* for the same external_id does not raise.
C7_InsertConflictNotSurfaced ==
    \A w \in Workers : exc[w] # "IntegrityError: properties_external_id_key"

\* C8: two calls for the same route with the same candidates both finish
\* without error.
C8_SameRouteSameCandidatesConverge ==
    \A v, w \in Workers :
        v # w /\ route_id[v] = route_id[w] /\ attom_props[v] # None
        /\ attom_props[v] = attom_props[w]
        => pc[v] # "raised" /\ pc[w] # "raised"

\* The route argument names no route, or a route without geometry.
NoUsableRoute(rid) == rid \notin DOMAIN routes \/ routes[rid].geom = None

\* Worker w takes the step that enters enrich_route.
EnterStep(w) == pc[w] = "idle" /\ pc'[w] # "idle"

\* C9: called for a missing route or a route without geometry, enrich_route
\* returns 0, raises nothing and writes no row.
C9_NoRouteNoWrites ==
    [][ \A w \in Workers :
          EnterStep(w) /\ NoUsableRoute(route_id'[w]) =>
            /\ pc'[w] = "done" /\ result'[w] = Some(0) /\ exc'[w] = ""
            /\ session'[w] = EmptySession
            /\ UNCHANGED << properties, properties_id_seq, route_properties >> ]_vars

\* One call returned 0 for the missing route 3, the other for route 2, which
\* has no geometry.
C9_Witness ==
    /\ pc["w1"] = "done" /\ route_id["w1"] = 3 /\ result["w1"] = Some(0)
    /\ pc["w2"] = "done" /\ route_id["w2"] = 2 /\ result["w2"] = Some(0)

\* Worker w takes the step in which the primary provider is unavailable.
UnavailableStep(w) == pc[w] = "query" /\ pc'[w] # "query" /\ attom_props'[w] = None

\* C10: when the primary provider is unavailable and the fallback provider is
\* unavailable or not configured, enrich_route returns 0, raises nothing and
\* leaves the stores unchanged.
C10_BothProvidersUnavailable ==
    [][ \A w \in Workers :
          UnavailableStep(w) /\ Val(estated'[w]).status \in {"unavailable", "unconfigured"} =>
            /\ pc'[w] = "done" /\ result'[w] = Some(0) /\ exc'[w] = ""
            /\ session'[w] = EmptySession
            /\ UNCHANGED << properties, properties_id_seq, route_properties >> ]_vars

\* One call returned 0 with the fallback unavailable, the other with the
\* fallback not configured.
C10_Witness ==
    /\ \A w \in Workers : pc[w] = "done" /\ attom_props[w] = None /\ estated[w] # None
                          /\ result[w] = Some(0)
    /\ Val(estated["w1"]).status = "unavailable"
    /\ Val(estated["w2"]).status = "unconfigured"

\* The query of the primary provider meets a failure signal: no credential, a
\* timeout, status 429 or a status 5xx.
FailureSignal(key, met) ==
    \/ key = None
    \/ /\ met # None
       /\ \/ Val(met).raises = "Timeout"
          \/ Val(met).status_code = 429
          \/ Val(met).status_code >= 500

\* The call takes the step that queries the primary provider.
QueryStep == pc[Caller] = "query" /\ pc'[Caller] # "query"

\* C11: on every failure signal of the primary provider query (timeout, 429,
\* 5xx, missing credential) _query_attom_bbox raises nothing and hands None to
\* enrich_route, which goes on to the fallback.
C11_FailureSignalsGiveNone ==
    [][ QueryStep /\ FailureSignal(api_key, http_response') =>
          /\ pc'[Caller] # "raised" /\ exc'[Caller] = ""
          /\ attom_props'[Caller] = None
          /\ estated'[Caller] # None ]_vars

\* With a credential, the request met status 503 and the call returned 0.
C11_Witness ==
    /\ api_key = Some("key")
    /\ http_response # None /\ Val(http_response).status_code = 503
    /\ pc[Caller] = "done" /\ exc[Caller] = "" /\ attom_props[Caller] = None
    /\ result[Caller] = Some(0)

\* A record that does not parse or normalize: no external id, or a coordinate
\* that is not a number; and a record that does, lying within the buffer.
Malformed(rec) == rec.attomId = "" \/ ParseRaises(rec)
ValidNear(rec) == ~ Malformed(rec) /\ rec.latitude = Some(LatNear)

\* C12: a call whose response holds one valid record within the buffer and one
\* malformed record ends without raising and returns 1.
C12_MalformedRecordSkipped ==
    LET r == attom_props[Caller]
    IN  /\ r # None /\ Len(Val(r)) = 2
        /\ \E i, j \in 1..2 : i # j /\ ValidNear(Val(r)[i]) /\ Malformed(Val(r)[j])
        /\ pc[Caller] \in {"done", "raised"}
        => pc[Caller] = "done" /\ result[Caller] = Some(1)

\* The (route, property) keys of the association rows session s writes: the
\* rows it adds and the committed rows whose distance it sets.
WrittenKeys(s) == DOMAIN s.assocs \cup DOMAIN s.updates

\* Worker w takes the step that commits and returns.
CommitStep(w) == pc[w] = "commit" /\ pc'[w] = "done"

\* C13: the value enrich_route returns is the number of distinct
\* (route, property) association rows the run wrote.
C13_CountIsDistinctAssociations ==
    [][ \A w \in Workers :
          CommitStep(w) => result'[w] = Some(Cardinality(WrittenKeys(session[w]))) ]_vars

\* The distance of the i-th record of worker w's response from its route, and
\* the positions of the records for external id ext that lie within the buffer.
RecordDist(w, i) ==
    LET p == parse_attom_property(Val(attom_props[w])[i], 0)
    IN  DistM(ST_Distance(routes[route_id[w]].geom, p.longitude, p.latitude))
PassesFor(w, ext) ==
    { i \in 1..Len(Val(attom_props[w])) :
        Val(attom_props[w])[i].attomId = Val(ext)
        /\ RecordDist(w, i) <= ROUTE_BUFFER_METERS * MicroDeg }

\* The distance the run of worker w computed last for property id, in tenths.
LatestDistance(w, id) ==
    LET I == PassesFor(w, Visible(w)[id].external_id)
    IN  Numeric61(RecordDist(w, CHOOSE i \in I : \A j \in I : j <= i))

\* C14: when a run commits, every association it added or re-associated holds
\* the distance the run computed last for that property, whatever it held.
C14_DistanceOverwritten ==
    [][ \A w \in Workers :
          CommitStep(w) =>
            \A k \in WrittenKeys(session[w]) :
                \A r \in BagToSet(route_properties') :
                    Key(r) = k => r.distance_meters = LatestDistance(w, k[2]) ]_vars

\* The first call associated property "a" at the buffer's edge (100.0), the
\* second met it near the route: the one row holds the second distance.
C14_Witness ==
    /\ \A w \in Workers : Returned(w) /\ route_id[w] = 1 /\ result[w] = Some(1)
                          /\ Len(Val(attom_props[w])) = 1
    /\ Parsed("w1")[1].latitude = Some(LatEdge)
    /\ Parsed("w2")[1].latitude = Some(LatNear)
    /\ \E r \in RowsWithKey(<< 1, 1 >>) : r.distance_meters = Numeric61(LatNear - Line.lat)
    /\ Copies(route_properties, RowsWithKey(<< 1, 1 >>)) = 1

\* C15: the upsert refreshes a stored property exactly when its age is at
\* least the configured PROPERTY_CACHE_HOURS, whatever value is configured.
C15_StalenessIsConfiguredTTL ==
    [][ SelectStep(Caller) =>
          LET p   == Val(props'[Caller])
              id  == QueryProperty(Caller, p.external_id)
              row == Visible(Caller)[id]
          IN  id # 0 =>
                IF now - row.last_updated >= config.PROPERTY_CACHE_HOURS
                THEN Visible(Caller)'[id] = p
                ELSE Visible(Caller)'[id] = row ]_vars

\* The tier of a price as the labels are specified: inclusive lower bounds,
\* "common" below 500,000 and without a price.
TierOf(price) ==
    IF price = None THEN "common"
    ELSE IF Val(price) >= 2000000 * Hundredths THEN "legendary"
    ELSE IF 1000000 * Hundredths <= Val(price) /\ Val(price) < 2000000 * Hundredths THEN "epic"
    ELSE IF 500000 * Hundredths <= Val(price) /\ Val(price) < 1000000 * Hundredths THEN "rare"
    ELSE "common"

PrimaryAnswered ==
    /\ http_response # None
    /\ Val(http_response).raises = "" /\ Val(http_response).status_code < 400

\* The query of the primary provider is over and gave no list: there was no
\* credential, or the request failed.
PrimaryUnavailable ==
    /\ pc[Caller] \notin {"idle", "query"}
    /\ ~ PrimaryAnswered

\* C17: one call of enrich_route sends at most one request to the primary
\* provider, calls the fallback only after the primary was unavailable, and
\* never after the primary answered, even with an empty list.
C17_PrimaryOnceFallbackAfterUnavailable ==
    /\ requests_get <= 1
    /\ estated_calls <= 1
    /\ estated_calls > 0 => PrimaryUnavailable
    /\ PrimaryAnswered => estated_calls = 0

\* The one request met status 429, and the call went to the fallback once.
C17_Witness ==
    /\ http_response # None /\ Val(http_response).status_code = 429
    /\ requests_get = 1
    /\ estated_calls = 1
    /\ pc[Caller] = "done"

\* A sample with both coordinates, and the usable samples of a list.
Usable(p) == p.lat # None /\ p.lon # None
UsablePoints(points) == SelectSeq(points, Usable)

\* An upload that is well-formed but for samples without coordinates: a date
\* in the format, and a timestamp on every sample.
WellFormed(d) ==
    /\ d.recorded_date # None /\ IsIsoDate(Val(d.recorded_date))
    /\ \A i \in 1..Len(d.points) : d.points[i].timestamp # None

\* C18: an upload with at least one usable sample is accepted, and its route
\* is built from the usable samples; samples without latitude or longitude
\* are skipped.
C18_UnusableSamplesSkipped ==
    upload_response # None /\ WellFormed(Val(payload))
    /\ Len(UsablePoints(Val(payload).points)) > 0
    => /\ Val(upload_response).status = 200
       /\ Len(Val(routes[Val(upload_response).route_id].geom))
            = Len(UsablePoints(Val(payload).points))

\* path lists exactly the usable samples of points as (lon, lat) vertices, in
\* an order of non-decreasing timestamps.
InTimestampOrder(path, points) ==
    LET usable == { i \in 1..Len(points) : Usable(points[i]) }
    IN  \E g \in [DOMAIN path -> usable] :
          /\ \A i, j \in DOMAIN path : g[i] = g[j] => i = j
          /\ \A u \in usable : \E i \in DOMAIN path : g[i] = u
          /\ \A i \in DOMAIN path :
                path[i] = << Val(points[g[i]].lon), Val(points[g[i]].lat) >>
          /\ \A i, j \in DOMAIN path :
                i < j => Val(points[g[i]].timestamp) <= Val(points[g[j]].timestamp)

\* C19: the path of an uploaded route, and the coordinates to_geojson gives
\* for it, list exactly its usable samples as (lon, lat) in non-decreasing
\* timestamp order, whatever the order of the upload.
C19_PathInTimestampOrder ==
    upload_response # None /\ Val(upload_response).status = 200 =>
        /\ InTimestampOrder(Val(routes[Val(upload_response).route_id].geom), Val(payload).points)
        /\ geojson # None => InTimestampOrder(Val(geojson), Val(payload).points)

\* Two samples were uploaded latest first: the path and the coordinates list
\* the earlier one first, each as (lon, lat).
C19_Witness ==
    /\ payload # None /\ upload_response # None /\ geojson # None
    /\ Val(payload).points = << [timestamp |-> Some(2), lat |-> Some(5), lon |-> Some(7)],
                                [timestamp |-> Some(1), lat |-> Some(0), lon |-> Some(7)] >>
    /\ Val(upload_response).status = 200
    /\ Val(routes[Val(upload_response).route_id].geom) = << << 7, 0 >>, << 7, 5 >> >>
    /\ Val(geojson) = << << 7, 0 >>, << 7, 5 >> >>

\* C20: no step of any run of enrich_route removes a properties row, and every
\* row keeps, under its id, its external_id.
C20_PropertiesNeverDeleted ==
    [][ \A i \in DOMAIN properties :
          /\ i \in DOMAIN properties'
          /\ properties'[i].external_id = properties[i].external_id ]_vars

\* Both calls have returned at hour 24: property "a" was refreshed and still
\* has the id 1, and property "b" was added under the id 2.
C20_Witness ==
    /\ \A w \in Workers : Returned(w)
    /\ DOMAIN properties = {1, 2}
    /\ properties[1].external_id = Some("a") /\ properties[1].last_updated = STALE_HOURS
    /\ properties[2].external_id = Some("b")

\* C21: no step of a call of enrich_route changes a routes row or a
\* route_points row, whatever the provider returns.
C21_RoutesUntouched ==
    [][ routes' = routes /\ route_points' = route_points ]_vars

\* A call has associated a property and committed; the routes and their
\* samples are as they were stored.
C21_Witness ==
    /\ Returned(Caller) /\ result[Caller] = Some(1)
    /\ RowsWithKey(<< 1, 1 >>) # {}
    /\ routes = StoredRoutes /\ route_points = StoredRoutePoints

\* The call has returned from a response of the one record rec, for route 1.
ReturnedFor(rec) ==
    /\ Returned(Caller) /\ route_id[Caller] = 1
    /\ Val(attom_props[Caller]) = << rec >>

\* C22: with the buffer of 100 m, a candidate about 150 m from the route is
\* not associated, and a candidate about 50 m from it is associated with a
\* distance_meters of about 50 (here between 45.0 and 55.0).
C22_DistanceInMeters ==
    \A rec \in Listings \cup OddListings :
        /\ ReturnedFor(rec) /\ rec.latitude = Some(LatFar) =>
             /\ result[Caller] = Some(0)
             /\ route_properties = EmptyBag
        /\ ReturnedFor(rec) /\ rec.latitude = Some(LatNear) /\ rec.attomId = "a" =>
             /\ result[Caller] = Some(1)
             /\ \A r \in RowsWithKey(<< 1, 1 >>) :
                   450 <= r.distance_meters /\ r.distance_meters <= 550

\* The distance on the ground from the location (lon, lat) to the line geom is
\* at most buf metres; lengths in centimetres.
GroundWithin(geom, lon, lat, buf) ==
    LET dx == Max(Max(geom.lon0 - lon, lon - geom.lon1), 0)
        dy == Abs(lat - geom.lat)
        x  == (dx * MetresPerDegreeLon) \div 10000
        y  == (dy * MetresPerDegreeLat) \div 10000
    IN  x * x + y * y <= (buf * 100) * (buf * 100)

\* Locations about the route: on it, and up to a little more than 100 m from
\* it in each direction.
Probes ==
    { [lon |-> x, lat |-> y] :
        x \in { Line.lon0 - 1270, Line.lon0 - 1269, Line.lon0 - 1268, Line.lon0 - 900, Line.lon0,
                Line.lon1, Line.lon1 + 900, Line.lon1 + 1268, Line.lon1 + 1269, Line.lon1 + 1270 },
        y \in { Line.lat - 901, Line.lat - 900, Line.lat - 899, Line.lat - 600, Line.lat,
                Line.lat + 600, Line.lat + 899, Line.lat + 900, Line.lat + 901 } }

InBox(p, box) ==
    /\ box.minlon <= p.lon /\ p.lon <= box.maxlon
    /\ box.minlat <= p.lat /\ p.lat <= box.maxlat

C24_MissingCoordinatesSkipped ==
    \A rec \in Listings \cup OddListings :
        ReturnedFor(rec) /\ rec.attomId # "" /\ rec.latitude = None =>
            /\ result[Caller] = Some(0)
            /\ route_properties = EmptyBag

\* C25: a candidate the distance check rejects is in the property cache, and
\* its pass adds no association, sets no distance and does not count; the
\* commit leaves every association the run did not write as it was stored,
\* with its distance_meters and discovered_at, and removes none.
C25_RejectedKeepsAssociation ==
    [][ \A w \in Workers :
          /\ AssociateStep(w) /\ DistOf(w) > ROUTE_BUFFER_METERS * MicroDeg =>
                /\ prop[w] \in DOMAIN Visible(w)
                /\ Visible(w)[prop[w]].external_id = Val(props[w]).external_id
                /\ WrittenKeys(session'[w]) = WrittenKeys(session[w])
                /\ SessionDistance(session'[w], KeyOf(w)) = SessionDistance(session[w], KeyOf(w))
                /\ count'[w] = count[w]
                /\ route_properties' = route_properties
          /\ CommitStep(w) =>
                \A r \in BagToSet(route_properties) :
                    Key(r) \notin WrittenKeys(session[w]) =>
                        /\ r \in BagToSet(route_properties')
                        /\ CopiesIn(r, route_properties') = CopiesIn(r, route_properties) ]_vars
C25_Witness ==
    \E v, w \in Workers :
        /\ Returned(v) /\ Returned(w) /\ route_id[v] = 1 /\ route_id[w] = 1
        /\ Len(Val(attom_props[v])) = 1 /\ Len(Val(attom_props[w])) = 1
        /\ Parsed(v)[1].latitude = Some(LatNear) /\ Parsed(w)[1].latitude = Some(LatBeyond)
        /\ result[v] = Some(1) /\ result[w] = Some(0)
        /\ now = STALE_HOURS
        /\ properties[1].latitude = Some(LatBeyond) /\ properties[1].last_updated = now
        /\ \E r \in RowsWithKey(<< 1, 1 >>) :
              r.discovered_at = 0 /\ r.distance_meters = Numeric61(LatNear - Line.lat)

\* Worker w's call ends by an exception.
RaiseStep(w) == pc[w] # "raised" /\ pc'[w] = "raised"

\* C26: the tables change only by the commit of a run, which comes after its
\* last candidate and stores all the rows the run wrote; a run that fails
\* before its commit leaves the tables as they were and its writes are
\* dropped; and the property a lookup finds is committed or the run's own.
C26_SingleCommit ==
    [][ /\ properties' # properties \/ route_properties' # route_properties =>
              \E w \in Workers : CommitStep(w)
        /\ \A w \in Workers :
              /\ CommitStep(w) =>
                    /\ idx[w] > Len(Val(attom_props[w]))
                    /\ \A i \in DOMAIN session[w].props : properties'[i] = session[w].props[i]
                    /\ \A k \in WrittenKeys(session[w]) :
                          \E r \in BagToSet(route_properties') :
                              Key(r) = k /\ r.distance_meters = SessionDistance(session[w], k)
              /\ RaiseStep(w) =>
                    /\ properties' = properties /\ route_properties' = route_properties
                    /\ session'[w] = EmptySession
              /\ SelectStep(w) =>
                    prop'[w] \in {0} \cup DOMAIN properties \cup DOMAIN session[w].props ]_vars
C26_Witness ==
    \E v, w \in Workers :
        /\ v # w /\ pc[w] = "raised" /\ count[w] = 1 /\ session[w] = EmptySession
        /\ exc[w] = "OperationalError: deadlock detected"
        /\ session[v].inserted # {}
        /\ route_properties = EmptyBag /\ properties = StoredProperties

\* ----------------------------------------------------------- mobile client
\* The samples the callbacks record, the seconds the device clock shows, the
\* restarts of the application, the callbacks waiting in the Clock and the 2xx
\* answers counted per file.
MaxSamples == 2
MaxSeconds == 1
MaxLaunches == 1
MaxEvents == 2
MaxAccepted == 2

\* route_%Y%m%d_%H%M%S.json: one name per second of the device clock.
FileNames == 0..MaxSeconds

\* Clock.schedule_once(lambda *_: self._retry_pending_uploads(), 0) and
\* Clock.schedule_once(lambda *_: self._try_upload(saved_path), 0).
RetryEvent == [fn |-> "_retry_pending_uploads", path |-> None]
UploadEvent(name) == [fn |-> "_try_upload", path |-> Some(name)]

\* upload_route answers 2xx to the payload of a file: its points are a
\* non-empty array and each holds lat and lon (the samples of the simulated
\* tick hold a timestamp only).
Accepts(points) == points # << >> /\ \A i \in 1..Len(points) : points[i].gps

\* build(), with the routes directory and config.json as the device keeps them.
Built ==
    /\ is_collecting = FALSE
    /\ collected_points = << >>
    /\ tick_ev = FALSE
    /\ gps_active = FALSE
    /\ gps_running = FALSE
    /\ clock_events = << RetryEvent >>

ClientInit ==
    /\ EnrichInit /\ CallIdle /\ RarityIdle /\ UploadIdle /\ ApiIdle
    /\ Built
    /\ sample_seq = 0
    /\ utcnow = 0
    /\ files = [n \in FileNames |-> None]
    /\ linked = FALSE
    /\ accepted = [n \in FileNames |-> 0]
    /\ launches = 0

\* The application is closed and started again: build() on a new instance;
\* the files and config.json stay on the device.
Launch ==
    /\ launches < MaxLaunches
    /\ launches' = launches + 1
    /\ is_collecting' = FALSE
    /\ collected_points' = << >>
    /\ tick_ev' = FALSE
    /\ gps_active' = FALSE
    /\ gps_running' = FALSE
    /\ clock_events' = << RetryEvent >>
    /\ UNCHANGED << sample_seq, utcnow, files, linked, accepted >>
    /\ UNCHANGED << now, tables, pc, locals, call, rarity, upload, api >>

\* start_collection(): _start_gps() succeeds, or the simulated tick is
\* scheduled.
StartCollection ==
    /\ IF is_collecting
       THEN UNCHANGED << is_collecting, tick_ev, gps_active, gps_running >>
       ELSE /\ is_collecting' = TRUE
            /\ \E started \in BOOLEAN :
                  IF started
                  THEN gps_active' = TRUE /\ gps_running' = TRUE /\ UNCHANGED tick_ev
                  ELSE gps_active' = FALSE /\ tick_ev' = TRUE /\ UNCHANGED gps_running
    /\ UNCHANGED << collected_points, sample_seq, utcnow, files, clock_events, linked,
                    accepted, launches >>
    /\ UNCHANGED << now, tables, pc, locals, call, rarity, upload, api >>

\* stop_collection(): the tick is cancelled, plyer_gps.stop() is called (an
\* exception of it is passed over and the provider stays on), the buffer is
\* saved under the name of the current second, its upload is scheduled and the
\* buffer reset.
StopCollection ==
    /\ IF ~ is_collecting
       THEN UNCHANGED << is_collecting, collected_points, tick_ev, gps_active, gps_running,
                         files, clock_events >>
       ELSE /\ Len(clock_events) < MaxEvents
            /\ is_collecting' = FALSE
            /\ tick_ev' = FALSE
            /\ gps_active' = FALSE
            /\ IF gps_active
               THEN \E stopped \in BOOLEAN : gps_running' = (gps_running /\ ~ stopped)
               ELSE UNCHANGED gps_running
            /\ files' = [files EXCEPT ![utcnow] = Some(collected_points)]
            /\ clock_events' = Append(clock_events, UploadEvent(utcnow))
            /\ collected_points' = << >>
    /\ UNCHANGED << sample_seq, utcnow, linked, accepted, launches >>
    /\ UNCHANGED << now, tables, pc, locals, call, rarity, upload, api >>

\* _tick_simulated(): a sample with a timestamp.
TickSimulated ==
    /\ tick_ev
    /\ sample_seq < MaxSamples
    /\ sample_seq' = sample_seq + 1
    /\ collected_points' = Append(collected_points, [n |-> sample_seq + 1, gps |-> FALSE])
    /\ UNCHANGED << is_collecting, tick_ev, gps_active, gps_running, utcnow, files,
                    clock_events, linked, accepted, launches >>
    /\ UNCHANGED << now, tables, pc, locals, call, rarity, upload, api >>

\* _on_gps_location(**kwargs): a fix without lat or lon is ignored, any other
\* is appended.
OnGpsLocation ==
    /\ gps_running
    /\ \E valid \in BOOLEAN :
          IF valid
          THEN /\ sample_seq < MaxSamples
               /\ sample_seq' = sample_seq + 1
               /\ collected_points' = Append(collected_points, [n |-> sample_seq + 1, gps |-> TRUE])
          ELSE UNCHANGED << sample_seq, collected_points >>
    /\ UNCHANGED << is_collecting, tick_ev, gps_active, gps_running, utcnow, files,
                    clock_events, linked, accepted, launches >>
    /\ UNCHANGED << now, tables, pc, locals, call, rarity, upload, api >>

\* A second passes on the device clock.
ClientTick ==
    /\ utcnow < MaxSeconds
    /\ utcnow' = utcnow + 1
    /\ UNCHANGED << is_collecting, collected_points, tick_ev, gps_active, gps_running,
                    sample_seq, files, clock_events, linked, accepted, launches >>
    /\ UNCHANGED << now, tables, pc, locals, call, rarity, upload, api >>

\* _do_link: the server exchanged the code for an api_key, written to
\* config.json with the server URL.
DoLink ==
    /\ linked' = TRUE
    /\ UNCHANGED << is_collecting, collected_points, tick_ev, gps_active, gps_running,
                    sample_seq, utcnow, files, clock_events, accepted, launches >>
    /\ UNCHANGED << now, tables, pc, locals, call, rarity, upload, api >>

\* The files a request can be answered 2xx for.
Acceptable == { n \in FileNames : files[n] # None /\ Accepts(Val(files[n])) /\ accepted[n] < MaxAccepted }

\* The Clock runs its next callback.  _try_upload(path) returns when the
\* device is not linked, else posts the file: the answer is 2xx, or an error
\* that is passed over.  _retry_pending_uploads() does so for every file of the
\* routes directory.
RunClockEvent ==
    /\ clock_events # << >>
    /\ clock_events' = Tail(clock_events)
    /\ LET ev == Head(clock_events)
           sent == IF ~ linked THEN {}
                   ELSE IF ev.fn = "_try_upload" THEN {Val(ev.path)}
                   ELSE { n \in FileNames : files[n] # None }
       IN  \E ok \in SUBSET (sent \cap Acceptable) :
             accepted' = [n \in FileNames |-> IF n \in ok THEN accepted[n] + 1 ELSE accepted[n]]
    /\ UNCHANGED << is_collecting, collected_points, tick_ev, gps_active, gps_running,
                    sample_seq, utcnow, files, linked, launches >>
    /\ UNCHANGED << now, tables, pc, locals, call, rarity, upload, api >>

ClientNext ==
    \/ Launch
    \/ StartCollection
    \/ StopCollection
    \/ TickSimulated
    \/ OnGpsLocation
    \/ ClientTick
    \/ DoLink
    \/ RunClockEvent

ClientSpec == ClientInit /\ [][ClientNext]_vars

\* C27: no file of the routes directory is answered 2xx more than once.
C27_UploadedAtMostOnce ==
    \A n \in FileNames : accepted[n] <= 1

\* The sample numbers a saved file holds.
SavedIn(n) ==
    IF files[n] = None THEN {} ELSE { Val(files[n])[i].n : i \in 1..Len(Val(files[n])) }

\* C28: the sample buffer is empty whenever is_collecting is false, and no
\* sample is saved in two route files.
C28_BufferDiscipline ==
    /\ ~ is_collecting => collected_points = << >>
    /\ \A m, n \in FileNames : m # n => SavedIn(m) \cap SavedIn(n) = {}

\* ---------------------------------------------------- authenticated read API
\* An API key as text, with or without white space around it.
Plain(text) == [text |-> text, padded |-> FALSE]
Padded(text) == [text |-> text, padded |-> TRUE]

\* `if api_key:` on a str: it is not empty.
Truthy(k) == k.padded \/ k.text # ""

\* str.strip()
Strip(k) == [k EXCEPT !.padded = FALSE]

\* The requests: the X-API-Key header and the api_key member of the JSON body
\* (None when absent), and the text of the route_id argument (None when
\* absent, NonNumeric when int() rejects it).
HeaderValues == { None, Some(Padded("")), Some(Plain("k1")), Some(Padded("k1")), Some(Plain("k2")), Some(Plain("zz")) }
JsonValues == { None, Some(Padded("")), Some(Padded("k1")), Some(Plain("k2")) }
RouteIdTexts == { None, NonNumeric, Some(-1), Some(0), Some(1), Some(2), Some(3) }
Requests == [ header : HeaderValues, json : JsonValues, route_id : RouteIdTexts ]

\* _extract_api_key(): the header when it is not empty, else the api_key of
\* the JSON body when it is a non-empty str, stripped; else None.
extract_api_key(req) ==
    IF req.header # None /\ Truthy(Val(req.header)) THEN Some(Strip(Val(req.header)))
    ELSE IF req.json # None /\ Truthy(Val(req.json)) THEN Some(Strip(Val(req.json)))
    ELSE None

\* db.session.query(User).filter_by(api_key=api_key).first(): the id of the
\* user, None for no row (api_key is unique).
QueryUser(k) ==
    LET found == { u \in DOMAIN users : users[u].api_key = Some(k) }
    IN  IF found = {} THEN None ELSE Some(CHOOSE u \in found : TRUE)

\* The check of the user without the check of is_active.
UserFound(user) == user # None

\* `not user or not user.is_active` negated.
UserAccepted(user) == user # None /\ users[Val(user)].is_active

\* The responses: jsonify({"error": ...}), status and jsonify({"properties": props}).
JsonErrorResponse(message, status) == [status |-> status, error |-> message, properties |-> {}]
Unauthorized == JsonErrorResponse("Invalid API key", 401)
NotFound == JsonErrorResponse("Route not found", 404)
Listed(items) == [status |-> 200, error |-> "", properties |-> items]

\* Two stored properties, and the associations the routes of the two users can
\* have with them.
ApiProperties ==
    StoredProperties
    @@ (2 :> [ external_id |-> Some("b"), latitude |-> Some(LatNear),
               longitude |-> Some(Line.lon1), price |-> Some(2000000),
               source |-> "ATTOM", last_updated |-> 0 ])
ApiAssociations ==
    { [route_id |-> 1, property_id |-> 1, discovered_at |-> 0, distance_meters |-> 0],
      [route_id |-> 2, property_id |-> 1, discovered_at |-> 0, distance_meters |-> 0],
      [route_id |-> 2, property_id |-> 2, discovered_at |-> 0, distance_meters |-> 5] }

ApiInit ==
    /\ now = 0
    /\ routes = StoredRoutes
    /\ properties = ApiProperties
    /\ properties_id_seq = 2
    /\ route_properties \in { SetToBag(S) : S \in SUBSET ApiAssociations }
    /\ pc = [w \in Workers |-> "idle"]
    /\ route_id = [w \in Workers |-> 0]
    /\ attom_props = [w \in Workers |-> None]
    /\ estated = [w \in Workers |-> None]
    /\ idx = [w \in Workers |-> 0]
    /\ count = [w \in Workers |-> 0]
    /\ props = [w \in Workers |-> None]
    /\ prop = [w \in Workers |-> 0]
    /\ session = [w \in Workers |-> EmptySession]
    /\ result = [w \in Workers |-> None]
    /\ exc = [w \in Workers |-> ""]
    /\ CallIdle /\ RarityIdle /\ UploadIdle /\ ClientIdle
    /\ \E active \in BOOLEAN, k \in {None, Some(Plain("k2"))} :
          users = [StoredUsers EXCEPT !["u2"] = [api_key |-> k, is_active |-> active]]
    /\ route_owner = StoredOwners
    /\ request = None
    /\ api_pc = "idle"
    /\ g_current_user = None
    /\ handler_calls = 0
    /\ api_response = None

\* The wrapper of require_api_key on a request: 401 without a key, for a key
\* of no user and for a user who is not active; else g.current_user is set and
\* the handler called.
RequireApiKey ==
    /\ api_pc = "idle"
    /\ \E req \in Requests :
        LET k    == extract_api_key(req)
            user == IF k = None THEN None ELSE QueryUser(Val(k))
        IN  /\ request' = Some(req)
            /\ IF k = None \/ ~ Truthy(Val(k)) \/ ~ UserAccepted(user)
               THEN /\ api_response' = Some(Unauthorized)
                    /\ api_pc' = "done"
                    /\ UNCHANGED << g_current_user, handler_calls >>
               ELSE /\ g_current_user' = user
                    /\ handler_calls' = handler_calls + 1
                    /\ api_pc' = "handler"
                    /\ UNCHANGED api_response
    /\ UNCHANGED << users, route_owner >>
    /\ UNCHANGED << now, tables, pc, locals, call, rarity, upload, client >>

\* The check of the route without the check of its owner.
RouteFound(rid, uid) == rid \in DOMAIN routes

\* `not route or route.user_id != g.current_user.id` negated.
RouteVisibleTo(rid, uid) == rid \in DOMAIN routes /\ route_owner[rid] = uid

\* The items of the join of route_properties and properties for route rid:
\* the property, the distance of the association and the rarity label.
Items(rid) ==
    { [ id |-> r.property_id, distance_meters |-> r.distance_meters,
        rarity |-> get_rarity(IF properties[r.property_id].price = None THEN None
                              ELSE Some(Val(properties[r.property_id].price) * Hundredths)) ] :
        r \in { x \in BagToSet(route_properties) :
                  x.route_id = rid /\ x.property_id \in DOMAIN properties } }

\* list_properties(), called by the wrapper.
ListProperties ==
    /\ api_pc = "handler"
    /\ api_pc' = "done"
    /\ LET arg == Val(request).route_id
           rid == IF arg = None THEN 0 ELSE Val(arg)
       IN  api_response' = Some(
             IF arg = NonNumeric THEN JsonErrorResponse("route_id must be an integer", 400)
             ELSE IF rid <= 0 THEN JsonErrorResponse("Invalid route_id", 400)
             ELSE IF ~ RouteVisibleTo(rid, Val(g_current_user)) THEN NotFound
             ELSE Listed(Items(rid)))
    /\ UNCHANGED << users, route_owner, request, g_current_user, handler_calls >>
    /\ UNCHANGED << now, tables, pc, locals, call, rarity, upload, client >>

ApiNext == RequireApiKey \/ ListProperties

ApiSpec == ApiInit /\ [][ApiNext]_vars

\* The wrapper takes a request.
RequireStep == api_pc = "idle" /\ api_pc' # "idle"

\* The keys a request carries, as _extract_api_key reads them (stripped), and
\* the keys of the active users.
Carried(req) == { Strip(Val(x)) : x \in {req.header, req.json} \ {None} }
ActiveKeys == { users[u].api_key : u \in { v \in DOMAIN users : users[v].is_active } } \ {None}

\* C29: the wrapper calls the handler only for a request that carries the
\* api_key of an existing active user, who becomes g.current_user; when the
\* request carries no key of an active user the response is 401, the handler
\* is not called and no table, and not g.current_user, is changed.
C29_HandlerOnlyForActiveKey ==
    [][ RequireStep =>
          LET req == Val(request')
          IN  /\ handler_calls' # handler_calls =>
                    /\ g_current_user' # None
                    /\ users[Val(g_current_user')].is_active
                    /\ \E k \in Carried(req) : users[Val(g_current_user')].api_key = Some(k)
              /\ (\A k \in Carried(req) : Some(k) \notin ActiveKeys) =>
                    /\ api_response' = Some(Unauthorized)
                    /\ handler_calls' = handler_calls
                    /\ g_current_user' = g_current_user
                    /\ users' = users /\ route_owner' = route_owner
                    /\ routes' = routes /\ properties' = properties
                    /\ route_properties' = route_properties ]_vars
C29_Witness ==
    /\ api_pc = "done" /\ handler_calls = 0
    /\ request # None /\ Val(request).header = Some(Plain("k2")) /\ Val(request).json = None
    /\ users["u2"].api_key = Some(Plain("k2")) /\ ~ users["u2"].is_active
    /\ api_response = Some(Unauthorized)

\* C30: for a route that does not exist or that another user owns,
\* list_properties answers 404 and lists no property; every property it lists
\* is associated with the route asked for, which the caller owns; and no
\* response other than 200 lists a property.
C30_PropertiesOnlyToOwner ==
    api_pc = "done" /\ handler_calls = 1 =>
        LET arg  == Val(request).route_id
            uid  == Val(g_current_user)
            resp == Val(api_response)
        IN  /\ arg \in {Some(1), Some(2), Some(3)}
                /\ (Val(arg) \notin DOMAIN routes \/ route_owner[Val(arg)] # uid)
                => resp = NotFound
            /\ resp.status # 200 => resp.properties = {}
            /\ \A item \in resp.properties :
                  /\ arg # None /\ arg # NonNumeric
                  /\ Val(arg) \in DOMAIN route_owner /\ route_owner[Val(arg)] = uid
                  /\ \E r \in BagToSet(route_properties) :
                        r.route_id = Val(arg) /\ r.property_id = item.id
C30_Witness ==
    /\ api_pc = "done" /\ handler_calls = 1
    /\ g_current_user = Some("u1") /\ Val(request).route_id = Some(2)
    /\ RowsWithKey(<< 2, 2 >>) # {}
    /\ api_response = Some(NotFound)

====
